---------------------------- MODULE Spec2Model ----------------------------
(***************************************************************************)
(* Model of the ApiTester component (src/src/components/ApiTester.tsx):    *)
(* the request form, the makeRequest handler, the completion of the        *)
(* transport call it awaits, and the conditions under which the render     *)
(* shows each part of the response panel.                                  *)
(*                                                                         *)
(* JavaScript strings are sequences of one-character strings, so that      *)
(* trim, includes and JSON.parse are computed on the text itself.          *)
(* JavaScript values that can be null, undefined, a string or an object    *)
(* are records tagged by "type".                                           *)
(***************************************************************************)
EXTENDS Integers, Sequences, FiniteSets, TLC

\* Largest elapsed time, in milliseconds, that performance.now() is let to measure.
MaxElapsed == 1
\* Largest number of transport calls let to be outstanding together.  Nothing
\* in makeRequest limits them; the Send button does, to one.
MaxInFlight == 2

----------------------------------------------------------------------------
\* String literals of the source and the texts the inputs are drawn from.

\* '{"Content-Type": "application/json"}'
DefaultHeaders ==
  <<"{","\"","C","o","n","t","e","n","t","-","T","y","p","e","\"",":"," ","\"","a","p","p","l","i","c","a","t","i","o","n","/","j","s","o","n","\"","}">>
\* 'https://cors-anywhere.herokuapp.com/'
ProxyPrefix ==
  <<"h","t","t","p","s",":","/","/","c","o","r","s","-","a","n","y","w","h","e","r","e",".","h","e","r","o","k","u","a","p","p",".","c","o","m","/">>
\* 'CORS'
StrCORS ==
  <<"C","O","R","S">>
\* 'fetch'
StrFetch ==
  <<"f","e","t","c","h">>
\* 'application/json'
StrApplicationJson ==
  <<"a","p","p","l","i","c","a","t","i","o","n","/","j","s","o","n">>
\* 'content-type'
StrContentType ==
  <<"c","o","n","t","e","n","t","-","t","y","p","e">>
\* 'CORS Error: '
CorsErrorPrefix ==
  <<"C","O","R","S"," ","E","r","r","o","r",":"," ">>
\* '. Try enabling CORS proxy or configure the server to allow cross-origin requests.'
CorsErrorSuffix ==
  <<"."," ","T","r","y"," ","e","n","a","b","l","i","n","g"," ","C","O","R","S"," ","p","r","o","x","y"," ","o","r"," ","c","o","n","f","i","g","u","r","e"," ","t","h","e"," ","s","e","r","v","e","r"," ","t","o"," ","a","l","l","o","w"," ","c","r","o","s","s","-","o","r","i","g","i","n"," ","r","e","q","u","e","s","t","s",".">>
\* 'Unknown error occurred'
UnknownErrorText ==
  <<"U","n","k","n","o","w","n"," ","e","r","r","o","r"," ","o","c","c","u","r","r","e","d">>
\* ' http://h/p'
UrlText ==
  <<" ","h","t","t","p",":","/","/","h","/","p">>
\* 'not-json'
HeadersNotJson ==
  <<"n","o","t","-","j","s","o","n">>
\* '{"x":1}'
BodyJson ==
  <<"{","\"","x","\"",":","1","}">>
\* 'Failed to fetch'
MsgFailedToFetch ==
  <<"F","a","i","l","e","d"," ","t","o"," ","f","e","t","c","h">>
\* 'Load failed'
MsgLoadFailed ==
  <<"L","o","a","d"," ","f","a","i","l","e","d">>
\* 'blocked by CORS policy'
MsgBlockedByCors ==
  <<"b","l","o","c","k","e","d"," ","b","y"," ","C","O","R","S"," ","p","o","l","i","c","y">>
\* "Failed to execute 'text' on 'Response': body stream already read"
MsgBodyUsed ==
  <<"F","a","i","l","e","d"," ","t","o"," ","e","x","e","c","u","t","e"," ","'","t","e","x","t","'"," ","o","n"," ","'","R","e","s","p","o","n","s","e","'",":"," ","b","o","d","y"," ","s","t","r","e","a","m"," ","a","l","r","e","a","d","y"," ","r","e","a","d">>
\* 'network error'
MsgNetworkError ==
  <<"n","e","t","w","o","r","k"," ","e","r","r","o","r">>
\* 'application/json; charset=utf-8'
CtJsonUtf8 ==
  <<"a","p","p","l","i","c","a","t","i","o","n","/","j","s","o","n",";"," ","c","h","a","r","s","e","t","=","u","t","f","-","8">>
\* '{"a":1}'
BodyA1 ==
  <<"{","\"","a","\"",":","1","}">>
\* 'oops'
BodyOops ==
  <<"o","o","p","s">>
\* 'nf'
BodyNotFound ==
  <<"n","f">>
\* 'Unexpected token o in JSON at position 0'
MsgUnexpectedToken ==
  <<"U","n","e","x","p","e","c","t","e","d"," ","t","o","k","e","n"," ","o"," ","i","n"," ","J","S","O","N"," ","a","t"," ","p","o","s","i","t","i","o","n"," ","0">>
----------------------------------------------------------------------------
\* JavaScript values.

Null == [type |-> "null"]
Undefined == [type |-> "undefined"]
String(s) == [type |-> "string", value |-> s]
Object(members) == [type |-> "object", value |-> members]
Number(digits) == [type |-> "number", value |-> digits]

\* JavaScript truthiness, as used by `a && b` and `a ? b : c` in the render.
Truthy(v) ==
  CASE v.type = "null" -> FALSE
    [] v.type = "undefined" -> FALSE
    [] v.type = "string" -> v.value # <<>>
    [] OTHER -> TRUE

\* The white space of String.prototype.trim and of JSON that the inputs use.
WhiteSpace == {" ", "\t", "\n"}

RECURSIVE trimStart(_)
trimStart(s) ==
  IF s # <<>> /\ Head(s) \in WhiteSpace THEN trimStart(Tail(s)) ELSE s

RECURSIVE trimEnd(_)
trimEnd(s) ==
  IF s # <<>> /\ s[Len(s)] \in WhiteSpace
  THEN trimEnd(SubSeq(s, 1, Len(s) - 1))
  ELSE s

\* String.prototype.trim
trim(s) == trimEnd(trimStart(s))

\* String.prototype.includes
includes(s, pat) ==
  \E i \in 1..(Len(s) - Len(pat) + 1) : SubSeq(s, i, i + Len(pat) - 1) = pat

----------------------------------------------------------------------------
\* JSON.parse, for the JSON texts made of objects, strings without escapes and
\* unsigned integers; every other text is a SyntaxError.  A result is
\* [ok |-> TRUE, val |-> value, next |-> index after the value] or SyntaxError.

SyntaxError == [ok |-> FALSE]
Digits == {"0", "1", "2", "3", "4", "5", "6", "7", "8", "9"}

RECURSIVE skipWs(_, _)
skipWs(s, i) ==
  IF i <= Len(s) /\ s[i] \in WhiteSpace THEN skipWs(s, i + 1) ELSE i

\* Index of the quote closing a string whose text starts at i, 0 if none.
RECURSIVE closingQuote(_, _)
closingQuote(s, i) ==
  IF i > Len(s) THEN 0
  ELSE IF s[i] = "\"" THEN i
  ELSE closingQuote(s, i + 1)

\* Index after the run of digits starting at i.
RECURSIVE endOfDigits(_, _)
endOfDigits(s, i) ==
  IF i <= Len(s) /\ s[i] \in Digits THEN endOfDigits(s, i + 1) ELSE i

\* A later member replaces an earlier one of the same name.
withMember(members, key, val) ==
  {m \in members : m[1] # key} \cup {<<key, val>>}

RECURSIVE parseValue(_, _)
RECURSIVE parseMembers(_, _, _)
parseValue(s, from) ==
  LET i == skipWs(s, from) IN
  IF i > Len(s) THEN SyntaxError
  ELSE IF s[i] = "\"" THEN
    LET j == closingQuote(s, i + 1) IN
    IF j = 0 THEN SyntaxError
    ELSE [ok |-> TRUE, val |-> String(SubSeq(s, i + 1, j - 1)), next |-> j + 1]
  ELSE IF s[i] \in Digits THEN
    LET j == endOfDigits(s, i) IN
    [ok |-> TRUE, val |-> Number(SubSeq(s, i, j - 1)), next |-> j]
  ELSE IF s[i] = "{" THEN
    LET k == skipWs(s, i + 1) IN
    IF k <= Len(s) /\ s[k] = "}"
    THEN [ok |-> TRUE, val |-> Object({}), next |-> k + 1]
    ELSE parseMembers(s, k, {})
  ELSE SyntaxError

\* The members of an object from index i (a member name is expected there) to
\* the closing brace.
parseMembers(s, i, members) ==
  LET key == parseValue(s, i) IN
  IF ~key.ok \/ key.val.type # "string" THEN SyntaxError
  ELSE
    LET c == skipWs(s, key.next) IN
    IF c > Len(s) \/ s[c] # ":" THEN SyntaxError
    ELSE
      LET val == parseValue(s, c + 1) IN
      IF ~val.ok THEN SyntaxError
      ELSE
        LET e == skipWs(s, val.next)
            now == withMember(members, key.val.value, val.val)
        IN
        IF e > Len(s) THEN SyntaxError
        ELSE IF s[e] = "," THEN parseMembers(s, e + 1, now)
        ELSE IF s[e] = "}" THEN [ok |-> TRUE, val |-> Object(now), next |-> e + 1]
        ELSE SyntaxError

JSONparse(text) ==
  LET r == parseValue(text, 1) IN
  IF r.ok /\ skipWs(text, r.next) > Len(text)
  THEN [ok |-> TRUE, val |-> r.val]
  ELSE SyntaxError

----------------------------------------------------------------------------
\* The component's state (useState, lines 23-30) and what is outside it.

VARIABLES
  url,           \* useState('')
  method,        \* useState('GET')
  requestBody,   \* useState('')
  headers,       \* useState('{"Content-Type": "application/json"}')
  loading,       \* useState(false)
  response,      \* useState<ApiResponse | null>(null)
  error,         \* useState<string | null>(null)
  useCorsProxy,  \* useState(false)
  inflight,      \* the fetch calls awaited at line 72, each <url, options>
  event          \* what the handler last did: its toast and console output

vars ==
  <<url, method, requestBody, headers, loading, response, error, useCorsProxy,
    inflight, event>>

draft == <<url, method, requestBody, headers, useCorsProxy>>

\* The SelectItem values, lines 196-202.
Methods == {"GET", "POST", "PUT", "DELETE", "PATCH", "HEAD", "OPTIONS"}

\* Texts typed into the URL input, the headers textarea and the body textarea.
UrlTexts == {<<>>, <<" ">>, UrlText}
HeaderTexts == {DefaultHeaders, HeadersNotJson}
BodyTexts == {<<>>, <<" ", "\n">>, BodyJson}

Init ==
  /\ url = <<>>
  /\ method = "GET"
  /\ requestBody = <<>>
  /\ headers = DefaultHeaders
  /\ loading = FALSE
  /\ response = Null
  /\ error = Null
  /\ useCorsProxy = FALSE
  /\ inflight = <<>>
  /\ event = [kind |-> "none"]

----------------------------------------------------------------------------
\* The form's change handlers.

setUrl ==
  /\ \E text \in UrlTexts : url' = text
  /\ UNCHANGED <<method, requestBody, headers, loading, response, error,
                 useCorsProxy, inflight, event>>

setMethod ==
  /\ \E m \in Methods : method' = m
  /\ UNCHANGED <<url, requestBody, headers, loading, response, error,
                 useCorsProxy, inflight, event>>

\* The body textarea exists only while the method is neither GET nor HEAD.
ShowsBodyInput == method # "GET" /\ method # "HEAD"

setRequestBody ==
  /\ ShowsBodyInput
  /\ \E text \in BodyTexts : requestBody' = text
  /\ UNCHANGED <<url, method, headers, loading, response, error,
                 useCorsProxy, inflight, event>>

setHeaders ==
  /\ \E text \in HeaderTexts : headers' = text
  /\ UNCHANGED <<url, method, requestBody, loading, response, error,
                 useCorsProxy, inflight, event>>

setUseCorsProxy ==
  /\ useCorsProxy' = ~useCorsProxy
  /\ UNCHANGED <<url, method, requestBody, headers, loading, response, error,
                 inflight, event>>

----------------------------------------------------------------------------
\* makeRequest up to the await of fetch (lines 32-72).

\* if (!url.trim()), and the variant that tests the text untrimmed.
UrlRejectedUntrimmed(u) == u = <<>>
UrlRejected(u) == trim(u) = <<>>

\* try { parsedHeaders = JSON.parse(headers) } catch { parsedHeaders = {} },
\* and the variant whose catch keeps the default headers.
parsedHeadersKeepingDefault(text) ==
  LET parsed == JSONparse(text) IN
  IF parsed.ok THEN parsed.val ELSE JSONparse(DefaultHeaders).val
parsedHeaders(text) ==
  LET parsed == JSONparse(text) IN
  IF parsed.ok THEN parsed.val ELSE Object({})

requestUrl(u, proxy) == IF proxy THEN ProxyPrefix \o u ELSE u

\* if (method !== 'GET' && method !== 'HEAD' && requestBody.trim()), and the
\* variant that forgets HEAD.
AttachesBodyExceptGet(m, body) == m # "GET" /\ trim(body) # <<>>
AttachesBody(m, body) == m # "GET" /\ m # "HEAD" /\ trim(body) # <<>>

requestOptions(m, headersText, body) ==
  [ method |-> m,
    headers |-> parsedHeaders(headersText),
    mode |-> "cors",
    body |-> IF AttachesBody(m, body) THEN String(body) ELSE Undefined ]

ValidationToast ==
  [ kind |-> "rejected", title |-> "Error",
    description |-> "Please enter a valid URL", variant |-> "destructive" ]

makeRequest ==
  IF UrlRejected(url)
  THEN /\ event' = ValidationToast
       /\ UNCHANGED <<draft, loading, response, error, inflight>>
  ELSE /\ Len(inflight) < MaxInFlight
       /\ loading' = TRUE
       /\ error' = Null
       /\ inflight' = Append(inflight,
            [ url |-> requestUrl(url, useCorsProxy),
              options |-> requestOptions(method, headers, requestBody) ])
       /\ event' = [kind |-> "fetch"]
       /\ UNCHANGED <<draft, response>>

\* disabled={loading || !url.trim()}, and the variant that forgets loading.
SendDisabledWhenBlankOnly == trim(url) = <<>>
SendDisabled == loading \/ trim(url) = <<>>

\* A click on the Send button: a disabled button delivers no click.
ClickSend ==
  /\ ~SendDisabled
  /\ makeRequest

----------------------------------------------------------------------------
\* The transport: fetch settles by rejecting with a TypeError or by resolving
\* with a Response, whose body can be read once and whose stream can break.

TypeError(message) == [isError |-> TRUE, name |-> "TypeError", message |-> message]

FetchErrors ==
  {TypeError(MsgFailedToFetch), TypeError(MsgLoadFailed), TypeError(MsgBlockedByCors)}

\* What a server can answer: status, status text, headers and body.
Replies ==
  { [status |-> 200, statusText |-> "OK",
     headers |-> <<<<StrContentType, CtJsonUtf8>>>>, body |-> BodyA1],
    [status |-> 404, statusText |-> "Not Found",
     headers |-> <<>>, body |-> BodyNotFound],
    [status |-> 500, statusText |-> "Internal Server Error",
     headers |-> <<<<StrContentType, StrApplicationJson>>>>, body |-> BodyOops] }

\* The Response objects fetch can resolve with: a reply whose body stream
\* arrives in full or breaks, not yet read.
Responses ==
  { [status |-> r.status, statusText |-> r.statusText, headers |-> r.headers,
     body |-> r.body, bodyBroken |-> broken, bodyUsed |-> FALSE] :
    r \in Replies, broken \in BOOLEAN }

Outcomes ==
  {[kind |-> "reject", error |-> e] : e \in FetchErrors}
    \cup {[kind |-> "resolve", response |-> r] : r \in Responses}

Return(v) == [ok |-> TRUE, val |-> v]
Throw(e) == [ok |-> FALSE, error |-> e]

\* Headers.get: the value of the header, or null.
get(hdrs, name) ==
  IF \E i \in DOMAIN hdrs : hdrs[i][1] = name
  THEN String(hdrs[CHOOSE i \in DOMAIN hdrs : hdrs[i][1] = name][2])
  ELSE Null

\* Reading a body marks it used; a used body cannot be read again.
used(res) == [res EXCEPT !.bodyUsed = TRUE]

\* Response.text
text(res) ==
  IF res.bodyUsed THEN Throw(TypeError(MsgBodyUsed))
  ELSE IF res.bodyBroken THEN Throw(TypeError(MsgNetworkError))
  ELSE Return(String(res.body))

\* Response.json
json(res) ==
  IF res.bodyUsed THEN Throw(TypeError(MsgBodyUsed))
  ELSE IF res.bodyBroken THEN Throw(TypeError(MsgNetworkError))
  ELSE
    LET parsed == JSONparse(res.body) IN
    IF parsed.ok THEN Return(parsed.val)
    ELSE Throw([isError |-> TRUE, name |-> "SyntaxError", message |-> MsgUnexpectedToken])

----------------------------------------------------------------------------
\* makeRequest after fetch has settled (lines 72-128).

\* Lines 76-87: the body as JSON when the content type says so, else as text.
responseData(res) ==
  LET contentType == get(res.headers, StrContentType) IN
  IF Truthy(contentType) /\ includes(contentType.value, StrApplicationJson)
  THEN LET decoded == json(res) IN
       IF decoded.ok THEN decoded ELSE text(used(res))
  ELSE text(res)

\* Lines 89-92: res.headers.forEach into a plain object.
RECURSIVE headerObject(_, _)
headerObject(hdrs, members) ==
  IF hdrs = <<>> THEN Object(members)
  ELSE headerObject(Tail(hdrs),
         withMember(members, Head(hdrs)[1], String(Head(hdrs)[2])))

\* The try block from line 72 on: the ApiResponse handed to setResponse, or
\* the value thrown to the catch.
completion(outcome, timing) ==
  IF outcome.kind = "reject" THEN Throw(outcome.error)
  ELSE
    LET res == outcome.response
        data == responseData(res)
    IN
    IF ~data.ok THEN data
    ELSE Return([ type |-> "object",
                  data |-> data.val,
                  status |-> res.status,
                  statusText |-> res.statusText,
                  headers |-> headerObject(res.headers, {}),
                  timing |-> timing ])

\* if (errorMessage.includes('CORS') || errorMessage.includes('fetch')), and
\* the variant that looks for 'CORS' alone.
IsCorsErrorByCorsOnly(message) == includes(message, StrCORS)
IsCorsError(message) == includes(message, StrCORS) \/ includes(message, StrFetch)

\* Lines 111-116.
errorMessage(err) ==
  LET message == IF err.isError THEN err.message ELSE UnknownErrorText IN
  IF IsCorsError(message)
  THEN CorsErrorPrefix \o message \o CorsErrorSuffix
  ELSE message

\* finally { setLoading(false) }: the value of loading after the handler ends,
\* and the variant that resets it at the end of the try block only.
loadingAfterTryOnly(completed) == ~completed
loadingAfter(completed) == FALSE

\* One awaited fetch settles and the rest of makeRequest runs; its state
\* updates are rendered together.
Settle ==
  \E i \in DOMAIN inflight, outcome \in Outcomes, elapsed \in 0..MaxElapsed :
    LET done == completion(outcome, elapsed) IN
    /\ inflight' = SubSeq(inflight, 1, i - 1) \o SubSeq(inflight, i + 1, Len(inflight))
    /\ response' = IF done.ok THEN done.val ELSE response
    /\ error' = IF done.ok THEN error ELSE String(errorMessage(done.error))
    /\ loading' = loadingAfter(done.ok)
    /\ event' =
         IF done.ok
         THEN [ kind |-> "settled", outcome |-> outcome, ok |-> TRUE,
                title |-> "Request Completed", timing |-> elapsed ]
         ELSE [ kind |-> "settled", outcome |-> outcome, ok |-> FALSE,
                caught |-> done.error, title |-> "Request Failed",
                description |-> errorMessage(done.error),
                variant |-> "destructive" ]
    /\ UNCHANGED draft

----------------------------------------------------------------------------
\* What the render shows (lines 275-356).

ShowsSuccessIcon == Truthy(response)
ShowsFailureIcon == ~Truthy(response) /\ Truthy(error)
ShowsStatusBadge == Truthy(response)
ShowsSpinner == loading
ShowsErrorBanner == Truthy(error)
ShowsCorsSolutions == Truthy(error) /\ includes(error.value, StrCORS)
ShowsResponseTabs == Truthy(response) /\ ~loading /\ ~Truthy(error)
ShowsPlaceholder == ~Truthy(response) /\ ~loading /\ ~Truthy(error)

----------------------------------------------------------------------------
\* The component driven through its form: every submission is a click on the
\* Send button.  The proxy switch, which changes nothing but the URL handed to
\* fetch, is operated in SpecHandler.

Next ==
  \/ setUrl
  \/ setMethod
  \/ setRequestBody
  \/ setHeaders
  \/ ClickSend
  \/ Settle

Spec == Init /\ [][Next]_vars

\* The handler called whatever the button's state, as its own guard at line
\* 33 provides for, with the method, headers and body fields left as they
\* start.
NextHandler ==
  \/ setUrl
  \/ setUseCorsProxy
  \/ makeRequest
  \/ Settle

SpecHandler == Init /\ [][NextHandler]_vars

----------------------------------------------------------------------------
\* The display states of the specification, read off the three state fields.

IsBlank(s) == \A i \in DOMAIN s : s[i] \in WhiteSpace

DisplayState(pending, result, failure) ==
  CASE pending /\ result = Null /\ failure = Null -> "Pending"
    [] ~pending /\ result = Null /\ failure = Null -> "Empty"
    [] ~pending /\ result # Null /\ failure = Null -> "Succeeded"
    [] ~pending /\ result = Null /\ failure # Null -> "Failed"
    [] OTHER -> "Mixed"

\* A step in which an accepted submission hands a call to the transport, and
\* one in which an awaited call settles.
Submitted == Len(inflight') = Len(inflight) + 1
Settled == Len(inflight') = Len(inflight) - 1

\* The call handed to the transport by the step.
Handed == inflight'[Len(inflight')]

Settles == event.kind = "settled"
Resolved == Settles /\ event.outcome.kind = "resolve"
BodyArrived == Resolved /\ ~event.outcome.response.bodyBroken
DeclaresJson ==
  /\ Resolved
  /\ \E i \in DOMAIN event.outcome.response.headers :
       /\ event.outcome.response.headers[i][1] = StrContentType
       /\ includes(event.outcome.response.headers[i][2], StrApplicationJson)

----------------------------------------------------------------------------
\* C1: in every reachable state the component holds no ResponseResult together
\* with a FailureResult, and is not pending while it still holds a result of
\* an earlier request.
C1_OneDisplayState ==
  /\ ~(response # Null /\ error # Null)
  /\ ~(loading /\ response # Null)

\* C2: a submission made from Empty, Succeeded or Failed moves the display
\* state to Pending in that step, the settling of the transport moves it to
\* exactly one of Succeeded and Failed, and no other step changes it.
C2_Transitions ==
  [][ /\ Submitted =>
           /\ DisplayState(loading, response, error) \in {"Empty", "Succeeded", "Failed"}
           /\ DisplayState(loading', response', error') = "Pending"
      /\ Settled =>
           DisplayState(loading', response', error') \in {"Succeeded", "Failed"}
      /\ <<loading', response', error'>> # <<loading, response, error>> =>
           Submitted \/ Settled
    ]_vars

\* C3: at most one transport call is in flight; while one is, the component is
\* pending and the Send button disabled; and a step that enters the pending
\* state hands exactly one call to the transport.
C3_OneCallInFlight ==
  [][ /\ Len(inflight') <= 1
      /\ Len(inflight') = 1 => (loading' /\ SendDisabled')
      /\ loading' => SendDisabled'
      /\ (~loading /\ loading') => Submitted
      /\ Submitted => ~loading
    ]_vars

C3_Witness ==
  /\ Len(inflight) = 1
  /\ loading
  /\ ~IsBlank(url)
  /\ SendDisabled

\* C4: a submission with an empty or white-space-only URL hands nothing to the
\* transport and leaves loading, response and error as they were; it only
\* emits the validation notice.
C4_BlankUrlRejected ==
  [][ ( /\ IsBlank(url)
        /\ \/ Len(inflight') > Len(inflight)
           \/ event' # event /\ event'.kind \in {"rejected", "fetch"} )
      => /\ inflight' = inflight
         /\ <<loading', response', error'>> = <<loading, response, error>>
         /\ event'.kind = "rejected"
         /\ event'.title = "Error"
    ]_vars

C4_Witness ==
  /\ event.kind = "rejected"
  /\ url = <<" ">>
  /\ loading
  /\ Len(inflight) = 1
  /\ response # Null

\* C5: whenever the transport resolves with a response, whatever the status
\* code, the outcome is Succeeded with the status code and status text of that
\* response and never Failed.  Stated for the responses whose body arrives in
\* full, so that a broken connection is not what refutes it.
C5_ResolvedIsSucceeded ==
  BodyArrived =>
    /\ DisplayState(loading, response, error) = "Succeeded"
    /\ response.status = event.outcome.response.status
    /\ response.statusText = event.outcome.response.statusText

\* C6: when the response declares a JSON content type and its body does not
\* decode as JSON, the outcome is Succeeded with the body text as the body.
C6_DecodeFallsBackToText ==
  (BodyArrived /\ DeclaresJson /\ ~JSONparse(event.outcome.response.body).ok) =>
    /\ error = Null
    /\ response # Null
    /\ response.data = String(event.outcome.response.body)

\* C7: with header text that is not valid JSON an accepted submission hands
\* the transport exactly one call, with an empty header mapping and with the
\* body the body rule gives, and raises no failure.
C7_BadHeadersSentEmpty ==
  [][ (~loading /\ loading' /\ ~JSONparse(headers).ok) =>
        /\ Submitted
        /\ Handed.options.headers = Object({})
        /\ Handed.options.body =
             IF method \notin {"GET", "HEAD"} /\ ~IsBlank(requestBody)
             THEN String(requestBody)
             ELSE Undefined
        /\ error' = Null
    ]_vars

C7_Witness ==
  /\ Len(inflight) = 1
  /\ headers = HeadersNotJson
  /\ inflight[1].options.headers = Object({})
  /\ inflight[1].options.method = "POST"
  /\ inflight[1].options.body = String(BodyJson)
  /\ error = Null

\* C8: the call handed to the transport carries a body exactly when the method
\* is neither GET nor HEAD and the body text is not blank, the body is the
\* body text unchanged, and the body input is not shown for GET and HEAD.
C8_BodyRule ==
  [][ /\ Submitted =>
           /\ Handed.options.method = method
           /\ Handed.options.body # Undefined
                <=> (method \notin {"GET", "HEAD"} /\ ~IsBlank(requestBody))
           /\ Handed.options.body # Undefined
                => Handed.options.body = String(requestBody)
      /\ method' \in {"GET", "HEAD"} => ~ShowsBodyInput'
    ]_vars

C8_Witness ==
  /\ Len(inflight) = 1
  /\ method = "HEAD"
  /\ requestBody = BodyJson
  /\ inflight[1].options.method = "HEAD"
  /\ inflight[1].options.body = Undefined
  /\ ~ShowsBodyInput

\* C9: after a failure, if the caught message contains "CORS" or "fetch" the
\* stored message is the caught message within the remediation text and the
\* checklist is shown; if not, the stored message is the caught message and
\* the checklist is not shown.
C9_CorsRemediation ==
  (Settles /\ ~event.ok) =>
    LET message == event.caught.message IN
    IF includes(message, StrCORS) \/ includes(message, StrFetch)
    THEN /\ error = String(CorsErrorPrefix \o message \o CorsErrorSuffix)
         /\ ShowsCorsSolutions
    ELSE /\ error = String(message)
         /\ ~ShowsCorsSolutions

C9_Witness ==
  /\ Settles
  /\ ~event.ok
  /\ event.caught.message = MsgFailedToFetch
  /\ ShowsErrorBanner
  /\ ShowsCorsSolutions

\* C10: every settling of the transport, by response or by exception, an
\* exception raised while reading the body included, ends the pending state
\* and, with a non-blank URL, leaves the Send button enabled; and the pending
\* state ends in no other step.
C10_SettlingEndsPending ==
  [][ /\ Settled =>
           /\ ~loading'
           /\ ~IsBlank(url') => ~SendDisabled'
      /\ (loading /\ ~loading') => Settled
    ]_vars

C10_Witness ==
  /\ Settles
  /\ ~event.ok
  /\ event.outcome.kind = "resolve"
  /\ event.caught.message = MsgBodyUsed
  /\ ~loading
  /\ ~IsBlank(url)
  /\ ~SendDisabled

=============================================================================
